---- MODULE Spec2Model ----
(***************************************************************************)
(* The transition engine of the two-agent Overcooked gridworld            *)
(* (jaxmarl/environments/overcooked_v2/overcooked.py): movement,           *)
(* collision resolution, interaction, the cooking timer, time and          *)
(* termination.  A state of the model is a State of the environment plus   *)
(* the env object's max_steps, the action pair of the last step_env call   *)
(* and the rewards and dones that call returned.                           *)
(***************************************************************************)
EXTENDS Integers, Sequences, FiniteSets, TLC

VARIABLES agents, grid, time, terminal, max_steps, acts, rewards, dones

vars == <<agents, grid, time, terminal, max_steps, acts, rewards, dones>>

(***************************************************************************)
(* Bounds of the model.                                                    *)
(***************************************************************************)
\* Episode length (max_steps) given to the constructor in episodes explored
\* from reset.
EpisodeLen == 2
\* Number of step_env calls explored after the terminal flag is latched.
Overrun == 1
\* The value of time in the mid-episode states, and the number of step_env
\* calls explored from each of them.
MidTime == 200
MidSteps == 1
\* Number of movement phases explored from each placement of the agents, and
\* the number of passes of the collision loop that are followed.
CollideCalls == 1
\* Number of process_interact calls explored from each faced cell and inventory.
InteractCalls == 1
MaxIter == 3

(***************************************************************************)
(* Actions (class Actions) and the action -> direction table.              *)
(***************************************************************************)
right == 0
down == 1
left == 2
up == 3
stay == 4
interact == 5

Actions == {right, down, left, up, stay, interact}

\* common.Direction
UP == 0
DOWN == 1
RIGHT == 2
LEFT == 3

ACTION_TO_DIRECTION(a) ==
  CASE a = right -> RIGHT
    [] a = down -> DOWN
    [] a = left -> LEFT
    [] a = up -> UP
    [] OTHER -> -1

DELIVERY_REWARD == 20
POT_COOK_TIME == 20
\* default of the constructor's max_steps
DEFAULT_MAX_STEPS == 400

(***************************************************************************)
(* common.StaticObject, common.DynamicObject, common.Position and          *)
(* common.Agent: the data model of section 3 of the specification.         *)
(***************************************************************************)
EMPTY == 0
WALL == 1
AGENT == 2
SELF_AGENT == 3
GOAL == 4
POT == 5
PLATE_PILE == 9
INGREDIENT_PILE_BASE == 10

\* DynamicObject: bit 0 is the plate, bit 1 the cooked flag, and every
\* ingredient type owns a two-bit count above them.
PLATE == 1
COOKED == 2
BASE_INGREDIENT == 4

RECURSIVE Pow4(_)
Pow4(n) == IF n <= 0 THEN 1 ELSE 4 * Pow4(n - 1)

\* DynamicObject.ingredient(idx) = BASE_INGREDIENT << 2 * idx
ingredient(idx) == BASE_INGREDIENT * Pow4(idx)

\* obj & PLATE and obj & COOKED as tests
HasPlate(obj) == obj % 2 = 1
HasCooked(obj) == (obj \div 2) % 2 = 1

\* obj | COOKED
SetCooked(obj) == IF HasCooked(obj) THEN obj ELSE obj + COOKED

RECURSIVE DigitSum4(_)
DigitSum4(n) == IF n <= 0 THEN 0 ELSE (n % 4) + DigitSum4(n \div 4)

\* DynamicObject.ingredient_count: the sum of the two-bit counts
ingredient_count(obj) == DigitSum4(obj \div 4)

\* StaticObject.is_ingredient_pile, StaticObject.get_ingredient
is_ingredient_pile(obj) == obj >= INGREDIENT_PILE_BASE
get_ingredient(obj) == ingredient(obj - INGREDIENT_PILE_BASE)

\* common.DIR_TO_VEC
DirX(dir) == CASE dir = RIGHT -> 1 [] dir = LEFT -> -1 [] OTHER -> 0
DirY(dir) == CASE dir = DOWN -> 1 [] dir = UP -> -1 [] OTHER -> 0

Pos(px, py) == [x |-> px, y |-> py]

Clip(v, lo, hi) == IF v < lo THEN lo ELSE IF v > hi THEN hi ELSE v

\* Position.move_in_bounds
move_in_bounds(pos, dir, width, height) ==
  Pos(Clip(pos.x + DirX(dir), 0, width - 1), Clip(pos.y + DirY(dir), 0, height - 1))

(***************************************************************************)
(* The layout handed to the constructor: a 4 x 4 kitchen whose five EMPTY  *)
(* cells form a staircase, so that the pot P, the goal G and the counter   *)
(* at (1,3) are each faced from two cells.  O and T are the piles of       *)
(* ingredient 0 and ingredient 1, B is the plate pile, W is a wall.        *)
(*        x=0  x=1  x=2  x=3                                               *)
(*   y=0   W    T    W    W                                                *)
(*   y=1   .    .    G    W                                                *)
(*   y=2   P    .    .    O                                                *)
(*   y=3   W    W    .    B                                                *)
(***************************************************************************)
Width == 4
Height == 4

Xs == 0 .. (Width - 1)
Ys == 0 .. (Height - 1)
AgentIds == {0, 1}

layout_static_objects(x, y) ==
  CASE (x = 0 /\ y = 1) \/ (x = 1 /\ y = 1) \/ (x = 1 /\ y = 2)
         \/ (x = 2 /\ y = 2) \/ (x = 2 /\ y = 3) -> EMPTY
    [] x = 2 /\ y = 1 -> GOAL
    [] x = 0 /\ y = 2 -> POT
    [] x = 3 /\ y = 2 -> INGREDIENT_PILE_BASE
    [] x = 1 /\ y = 0 -> INGREDIENT_PILE_BASE + 1
    [] x = 3 /\ y = 3 -> PLATE_PILE
    [] OTHER -> WALL

layout_agent_positions == (0 :> Pos(1, 1)) @@ (1 :> Pos(2, 2))

Cell(static, dynamic, extra) == (0 :> static) @@ (1 :> dynamic) @@ (2 :> extra)

\* utils.tree_select
tree_select(predicate, a, b) == IF predicate THEN a ELSE b

B2I(b) == IF b THEN 1 ELSE 0

(***************************************************************************)
(* Overcooked.step_agents: movement.                                       *)
(***************************************************************************)
\* _move forgetting to turn the agent
_move_keep_dir(g, agent, direction) ==
  LET pos == agent.pos
      new_pos == move_in_bounds(pos, direction, Width, Height)
  IN [agent EXCEPT !.pos = tree_select(g[new_pos.y][new_pos.x][0] = EMPTY, new_pos, pos)]

\* _move without the test of the target cell
_move_through(g, agent, direction) ==
  [agent EXCEPT !.pos = move_in_bounds(agent.pos, direction, Width, Height),
                !.dir = direction]

_move(g, agent, direction) ==
  LET pos == agent.pos
      new_pos == move_in_bounds(pos, direction, Width, Height)
  IN [agent EXCEPT !.pos = tree_select(g[new_pos.y][new_pos.x][0] = EMPTY, new_pos, pos),
                   !.dir = direction]

_move_wrapper(g, agent, action) ==
  LET direction == ACTION_TO_DIRECTION(action)
  IN IF direction # -1 THEN _move(g, agent, direction) ELSE agent

(***************************************************************************)
(* Overcooked.step_agents: collision resolution.                           *)
(***************************************************************************)
_resolved_positions(old_agents, new_agents, mask) ==
  [i \in AgentIds |-> tree_select(mask[i], old_agents[i].pos, new_agents[i].pos)]

_get_collisions(old_agents, new_agents, mask) ==
  LET positions == _resolved_positions(old_agents, new_agents, mask)
      collision_grid == [y \in Ys |-> [x \in Xs |->
                           Cardinality({i \in AgentIds : positions[i] = Pos(x, y)})]]
  IN [i \in AgentIds |-> collision_grid[positions[i].y][positions[i].x] > 1]

\* the loop undoing only the last agent of a collision
collision_loop_last_yields(old_agents, new_agents, mask) ==
  LET collisions == _get_collisions(old_agents, new_agents, mask)
  IN IF \E i \in AgentIds : collisions[i]
       THEN [i \in AgentIds |-> i = 1]
       ELSE mask

RECURSIVE collision_loop(_, _, _)
collision_loop(old_agents, new_agents, mask) ==
  LET collisions == _get_collisions(old_agents, new_agents, mask)
  IN IF \E i \in AgentIds : collisions[i]
       THEN collision_loop(old_agents, new_agents,
                           [i \in AgentIds |-> mask[i] \/ collisions[i]])
       ELSE mask

initial_mask == [i \in AgentIds |-> FALSE]

\* no collision resolution at all
resolve_collisions_none(old_agents, new_agents) == new_agents

\* a resolution that also sends back two agents that traded cells
resolve_collisions_no_swap(old_agents, new_agents) ==
  LET mask == collision_loop(old_agents, new_agents, initial_mask)
      positions == _resolved_positions(old_agents, new_agents, mask)
      swapped == /\ positions[0] = old_agents[1].pos
                 /\ positions[1] = old_agents[0].pos
  IN [i \in AgentIds |->
        [new_agents[i] EXCEPT !.pos = IF swapped THEN old_agents[i].pos ELSE positions[i]]]

resolve_collisions(old_agents, new_agents) ==
  LET mask == collision_loop(old_agents, new_agents, initial_mask)
      positions == _resolved_positions(old_agents, new_agents, mask)
  IN [i \in AgentIds |-> [new_agents[i] EXCEPT !.pos = positions[i]]]

\* Agent.get_fwd_pos: the cell in front of the agent, kept in bounds
get_fwd_pos(agent) == move_in_bounds(agent.pos, agent.dir, Width, Height)

(***************************************************************************)
(* Overcooked.process_interact.  Every value the code binds and then reads *)
(* several times is an operator of the values it is computed from:         *)
(* interact_item, interact_ingredients and interact_extra are the three    *)
(* channels of the faced cell, inventory is the agent's inventory.         *)
(***************************************************************************)
object_is_pile(interact_item) ==
  interact_item = PLATE_PILE \/ is_ingredient_pile(interact_item)

pot_is_cooking(interact_item, interact_extra) ==
  interact_item = POT /\ interact_extra > 0

pot_is_cooked(interact_item, interact_ingredients) ==
  interact_item = POT /\ HasCooked(interact_ingredients)

\* a pot taken for idle while it holds cooked ingredients
pot_is_idle_or_cooked(interact_item, interact_ingredients, interact_extra) ==
  /\ interact_item = POT
  /\ ~pot_is_cooking(interact_item, interact_extra)

\* a pot taken for idle while it is cooking
pot_is_idle_or_cooking(interact_item, interact_ingredients, interact_extra) ==
  /\ interact_item = POT
  /\ ~pot_is_cooked(interact_item, interact_ingredients)

pot_is_idle(interact_item, interact_ingredients, interact_extra) ==
  /\ interact_item = POT
  /\ ~pot_is_cooking(interact_item, interact_extra)
  /\ ~pot_is_cooked(interact_item, interact_ingredients)

successful_pickup(interact_item, interact_ingredients, inventory) ==
  \/ object_is_pile(interact_item) /\ inventory = 0
  \/ pot_is_cooked(interact_item, interact_ingredients) /\ inventory = PLATE
  \/ interact_item = WALL /\ ~(interact_ingredients = 0) /\ inventory = 0

\* a pot that is full only above three ingredients
pot_full_above(interact_ingredients) == ingredient_count(interact_ingredients) > 3

pot_full(interact_ingredients) == ingredient_count(interact_ingredients) = 3

\* a drop that lets a plate into the pot
successful_drop_plate(interact_item, interact_ingredients, interact_extra, inventory) ==
  \/ interact_item = WALL /\ interact_ingredients = 0 /\ ~(inventory = 0)
  \/ /\ pot_is_idle(interact_item, interact_ingredients, interact_extra)
     /\ ~pot_full(interact_ingredients)

successful_drop(interact_item, interact_ingredients, interact_extra, inventory) ==
  \/ interact_item = WALL /\ interact_ingredients = 0 /\ ~(inventory = 0)
  \/ /\ pot_is_idle(interact_item, interact_ingredients, interact_extra)
     /\ ~HasPlate(inventory)
     /\ ~pot_full(interact_ingredients)

\* a delivery of whatever the agent holds
successful_delivery_any(interact_item, inventory) ==
  interact_item = GOAL /\ inventory # 0

successful_delivery(interact_item, inventory) ==
  interact_item = GOAL /\ HasCooked(inventory)

no_effect(interact_item, interact_ingredients, interact_extra, inventory) ==
  /\ ~successful_pickup(interact_item, interact_ingredients, inventory)
  /\ ~successful_drop(interact_item, interact_ingredients, interact_extra, inventory)
  /\ ~successful_delivery(interact_item, inventory)

\* every ingredient pile handing out ingredient 0
pile_ingredient_first(interact_item) ==
  B2I(interact_item = PLATE_PILE) * PLATE
  + (IF is_ingredient_pile(interact_item) THEN ingredient(0) ELSE 0)

pile_ingredient(interact_item) ==
  B2I(interact_item = PLATE_PILE) * PLATE
  + (IF is_ingredient_pile(interact_item) THEN get_ingredient(interact_item) ELSE 0)

new_ingredients(interact_item, interact_ingredients, interact_extra, inventory) ==
  B2I(successful_drop(interact_item, interact_ingredients, interact_extra, inventory))
    * (interact_ingredients + inventory)
  + B2I(no_effect(interact_item, interact_ingredients, interact_extra, inventory))
    * interact_ingredients

\* the timer restarted on any pot that holds something
new_extra_any_pot(interact_item, interact_ingredients, interact_extra, inventory) ==
  IF /\ interact_item = POT
     /\ ~(interact_ingredients = 0)
     /\ inventory = 0
    THEN POT_COOK_TIME
    ELSE interact_extra

new_extra(interact_item, interact_ingredients, interact_extra, inventory) ==
  IF /\ pot_is_idle(interact_item, interact_ingredients, interact_extra)
     /\ ~(interact_ingredients = 0)
     /\ inventory = 0
    THEN POT_COOK_TIME
    ELSE interact_extra

new_inventory(interact_item, interact_ingredients, interact_extra, inventory) ==
  B2I(successful_pickup(interact_item, interact_ingredients, inventory))
    * (pile_ingredient(interact_item) + (interact_ingredients + inventory))
  + B2I(no_effect(interact_item, interact_ingredients, interact_extra, inventory))
    * inventory

interact_outcome(g, agent, fwd_pos, interact_item, interact_ingredients, interact_extra) ==
  [grid |-> [g EXCEPT ![fwd_pos.y][fwd_pos.x] =
               Cell(interact_item,
                    new_ingredients(interact_item, interact_ingredients, interact_extra,
                                    agent.inventory),
                    new_extra(interact_item, interact_ingredients, interact_extra,
                              agent.inventory))],
   agent |-> [agent EXCEPT !.inventory =
                new_inventory(interact_item, interact_ingredients, interact_extra,
                              agent.inventory)],
   reward |-> B2I(successful_delivery(interact_item, agent.inventory)) * DELIVERY_REWARD]

interact_at(g, agent, fwd_pos) ==
  interact_outcome(g, agent, fwd_pos,
                   g[fwd_pos.y][fwd_pos.x][0], g[fwd_pos.y][fwd_pos.x][1],
                   g[fwd_pos.y][fwd_pos.x][2])

process_interact(g, agent) == interact_at(g, agent, get_fwd_pos(agent))

(***************************************************************************)
(* Overcooked.step_agents: the interaction scan, agent_0 then agent_1 on   *)
(* a shared carry (grid, reward).                                          *)
(***************************************************************************)
\* _interact carrying the old grid on
_interact_stale_grid(carry, r) ==
  [grid |-> carry.grid, reward |-> carry.reward + r.reward, agent |-> r.agent]

\* _interact overwriting the carried reward
_interact_last_reward(carry, r) ==
  [grid |-> r.grid, reward |-> r.reward, agent |-> r.agent]

_interact(carry, r) ==
  [grid |-> r.grid, reward |-> carry.reward + r.reward, agent |-> r.agent]

\* a wrapper that interacts whatever the action is
_interact_wrapper_always(carry, agent, action) ==
  _interact(carry, process_interact(carry.grid, agent))

_interact_wrapper(carry, agent, action) ==
  IF action = interact
    THEN _interact(carry, process_interact(carry.grid, agent))
    ELSE [grid |-> carry.grid, reward |-> carry.reward, agent |-> agent]

scan_second(s0, new_agents, actions) ==
  [first |-> s0,
   second |-> _interact_wrapper([grid |-> s0.grid, reward |-> s0.reward],
                                new_agents[1], actions[1])]

scan_result(s) ==
  [grid |-> s.second.grid, reward |-> s.second.reward,
   agents |-> (0 :> s.first.agent) @@ (1 :> s.second.agent)]

\* the scan taking agent_1 before agent_0
interact_scan_reversed(g, new_agents, actions) ==
  LET s1 == _interact_wrapper([grid |-> g, reward |-> 0], new_agents[1], actions[1])
      s0 == _interact_wrapper([grid |-> s1.grid, reward |-> s1.reward],
                              new_agents[0], actions[0])
  IN [grid |-> s0.grid, reward |-> s0.reward,
      agents |-> (0 :> s0.agent) @@ (1 :> s1.agent)]

interact_scan(g, new_agents, actions) ==
  scan_result(scan_second(_interact_wrapper([grid |-> g, reward |-> 0],
                                            new_agents[0], actions[0]),
                          new_agents, actions))

(***************************************************************************)
(* Overcooked.step_agents: the cooking update of every cell.               *)
(***************************************************************************)
\* _cook setting the cooked flag one step early
_cook_early(cell) ==
  LET is_cooking == cell[2] > 0
      cook_extra == IF is_cooking THEN cell[2] - 1 ELSE cell[2]
      finished_cooking == is_cooking /\ cook_extra <= 1
      cook_ingredients == IF finished_cooking THEN SetCooked(cell[1]) ELSE cell[1]
  IN Cell(cell[0], cook_ingredients, cook_extra)

_cook(cell) ==
  LET is_cooking == cell[2] > 0
      cook_extra == IF is_cooking THEN cell[2] - 1 ELSE cell[2]
      finished_cooking == is_cooking /\ cook_extra = 0
      cook_ingredients == IF finished_cooking THEN SetCooked(cell[1]) ELSE cell[1]
  IN Cell(cell[0], cook_ingredients, cook_extra)

_cook_wrapper(cell) == IF cell[0] = POT THEN _cook(cell) ELSE cell

cook_pots(g) == [y \in Ys |-> [x \in Xs |-> _cook_wrapper(g[y][x])]]

step_result(scanned) ==
  [agents |-> scanned.agents, grid |-> cook_pots(scanned.grid), reward |-> scanned.reward]

move_agents(st_agents, st_grid, actions) ==
  resolve_collisions(st_agents,
                     [i \in AgentIds |-> _move_wrapper(st_grid, st_agents[i], actions[i])])

step_agents(st_agents, st_grid, actions) ==
  step_result(interact_scan(st_grid, move_agents(st_agents, st_grid, actions), actions))

\* is_terminal one step late
is_terminal_late(t, term, ms) == (t > ms) \/ term

\* Overcooked.is_terminal
is_terminal(t, term, ms) == (t >= ms) \/ term

(***************************************************************************)
(* Overcooked.reset: the initial state of an episode.                      *)
(***************************************************************************)
reset_grid == [y \in Ys |-> [x \in Xs |-> Cell(layout_static_objects(x, y), 0, 0)]]

reset_agents ==
  [i \in AgentIds |-> [pos |-> layout_agent_positions[i], dir |-> UP, inventory |-> 0]]

NoActs == [i \in AgentIds |-> stay]
NoRewards == [i \in AgentIds |-> 0]
DoneKeys == {"agent_0", "agent_1", "__all__"}

Init ==
  /\ agents = reset_agents
  /\ grid = reset_grid
  /\ time = 0
  /\ terminal = FALSE
  /\ max_steps = EpisodeLen
  /\ acts = NoActs
  /\ rewards = NoRewards
  /\ dones = [k \in DoneKeys |-> FALSE]

(***************************************************************************)
(* Overcooked.step_env.                                                    *)
(***************************************************************************)
step_return(r, done, actions) ==
  /\ agents' = r.agents
  /\ grid' = r.grid
  /\ time' = time + 1
  /\ terminal' = done
  /\ acts' = actions
  /\ rewards' = [i \in AgentIds |-> r.reward]
  /\ dones' = [k \in DoneKeys |-> done]
  /\ UNCHANGED max_steps

step_env(actions) ==
  step_return(step_agents(agents, grid, actions),
              is_terminal(time + 1, terminal, max_steps), actions)

ActionPairs == {(0 :> a0) @@ (1 :> a1) : a0 \in Actions, a1 \in Actions}

\* An episode from reset, followed until Overrun steps past its step limit.
Step ==
  /\ time < max_steps + Overrun
  /\ \E actions \in ActionPairs : step_env(actions)

Next == Step

Spec == Init /\ [][Next]_vars

(***************************************************************************)
(* Mid-episode states.  An episode of the default length has run for       *)
(* MidTime steps; the kitchen is in one of the situations below, each of   *)
(* which the agents reach from reset by fetching, dropping, cooking and    *)
(* plating (the five EMPTY cells are connected, agents pass each other by  *)
(* swapping, every object is faced from an EMPTY cell, and an agent turns  *)
(* towards a non-EMPTY cell without moving).                               *)
(***************************************************************************)
Onion == ingredient(0)
Tomato == ingredient(1)
Dish(ingredients) == PLATE + COOKED + ingredients

PotPos == Pos(0, 2)
GoalPos == Pos(2, 1)
CounterPos == Pos(1, 3)
OnionPilePos == Pos(3, 2)
TomatoPilePos == Pos(1, 0)
PlatePilePos == Pos(3, 3)

MidAgent(px, py, dir, inventory) == [pos |-> Pos(px, py), dir |-> dir, inventory |-> inventory]

MidGrid(pot_dynamic, pot_extra, counter_dynamic) ==
  [reset_grid EXCEPT ![PotPos.y][PotPos.x] = Cell(POT, pot_dynamic, pot_extra),
                     ![CounterPos.y][CounterPos.x] = Cell(WALL, counter_dynamic, 0)]

\* <<dynamic, extra>> of the pot: idle, cooking, cooked
IdlePots == {<<0, 0>>, <<Onion, 0>>, <<2 * Onion, 0>>, <<3 * Onion, 0>>,
             <<2 * Onion + Tomato, 0>>}
CookingPots == {<<Onion, 1>>, <<Onion, POT_COOK_TIME - 1>>, <<3 * Onion, 1>>,
                <<3 * Onion, 2>>}
CookedPots == {<<Onion + COOKED, 0>>, <<3 * Onion + COOKED, 0>>}
CountdownPots == {<<2 * Onion + Tomato, e>> : e \in 1 .. (POT_COOK_TIME - 1)}

HandItems == {0, PLATE, Onion, Dish(Onion)}
GoalItems == {0, PLATE, Onion, Tomato, Dish(Onion), Dish(3 * Onion)}
CounterItems == {0, PLATE, Onion, Dish(2 * Onion + Tomato)}
PileItems == {0, PLATE, Tomato}

\* both agents face the pot
MidAtPot ==
  {[agents |-> (0 :> MidAgent(0, 1, DOWN, i0)) @@ (1 :> MidAgent(1, 2, LEFT, i1)),
    grid |-> MidGrid(p[1], p[2], 0)] :
     i0 \in HandItems, i1 \in HandItems, p \in IdlePots \cup CookingPots \cup CookedPots}

\* a pot counting down while the agents stand at it empty-handed or with an onion
MidCountdown ==
  {[agents |-> (0 :> MidAgent(0, 1, DOWN, i0)) @@ (1 :> MidAgent(1, 2, LEFT, 0)),
    grid |-> MidGrid(p[1], p[2], 0)] : i0 \in {0, Onion}, p \in CountdownPots}

\* both agents face the goal
MidAtGoal ==
  {[agents |-> (0 :> MidAgent(1, 1, RIGHT, i0)) @@ (1 :> MidAgent(2, 2, UP, i1)),
    grid |-> MidGrid(Onion, 0, 0)] : i0 \in GoalItems, i1 \in GoalItems}

\* both agents face the counter at (1,3)
MidAtCounter ==
  {[agents |-> (0 :> MidAgent(1, 2, DOWN, i0)) @@ (1 :> MidAgent(2, 3, LEFT, i1)),
    grid |-> MidGrid(0, 0, c)] : i0 \in HandItems, i1 \in HandItems, c \in CounterItems}

\* the agents face piles
MidAtPiles ==
  {[agents |-> (0 :> MidAgent(a[1], a[2], a[3], i0)) @@ (1 :> MidAgent(2, 3, RIGHT, i1)),
    grid |-> MidGrid(Onion, 0, PLATE)] :
     a \in {<<2, 2, RIGHT>>, <<1, 1, UP>>}, i0 \in PileItems, i1 \in PileItems}

MidStates == MidAtPot \cup MidCountdown \cup MidAtGoal \cup MidAtCounter \cup MidAtPiles

InitMid ==
  /\ \E s \in MidStates : agents = s.agents /\ grid = s.grid
  /\ time = MidTime
  /\ terminal = FALSE
  /\ max_steps = DEFAULT_MAX_STEPS
  /\ acts = NoActs
  /\ rewards = NoRewards
  /\ dones = [k \in DoneKeys |-> FALSE]

\* MidSteps steps of the episode from a mid-episode state.
MidStep ==
  /\ time < MidTime + MidSteps
  /\ \E actions \in ActionPairs : step_env(actions)

NextMid == MidStep

SpecMid == InitMid /\ [][NextMid]_vars

(***************************************************************************)
(* The collision loop of step_agents on its own: the agents are placed on  *)
(* any two distinct cells, and a call moves them and resolves collisions.  *)
(***************************************************************************)
\* the loop's condition and body (the two lambdas of jax.lax.while_loop)
while_cond(old_agents, new_agents, mask) ==
  \E i \in AgentIds : _get_collisions(old_agents, new_agents, mask)[i]

\* a body that flags agent_0 only
while_body_first(old_agents, new_agents, mask) ==
  [i \in AgentIds |->
     mask[i] \/ (i = 0 /\ _get_collisions(old_agents, new_agents, mask)[i])]

while_body(old_agents, new_agents, mask) ==
  [i \in AgentIds |-> mask[i] \/ _get_collisions(old_agents, new_agents, mask)[i]]

\* the number of times the loop body runs, followed for at most fuel passes
RECURSIVE loop_iterations(_, _, _, _)
loop_iterations(old_agents, new_agents, mask, fuel) ==
  IF fuel > 0 /\ while_cond(old_agents, new_agents, mask)
    THEN 1 + loop_iterations(old_agents, new_agents,
                             while_body(old_agents, new_agents, mask), fuel - 1)
    ELSE 0

PlacedAgents ==
  {(0 :> MidAgent(p0.x, p0.y, UP, 0)) @@ (1 :> MidAgent(p1.x, p1.y, UP, 0)) :
     p0 \in {Pos(x, y) : x \in Xs, y \in Ys}, p1 \in {Pos(x, y) : x \in Xs, y \in Ys}}

InitCollide ==
  /\ agents \in {a \in PlacedAgents : a[0].pos # a[1].pos}
  /\ grid = reset_grid
  /\ time = 0
  /\ terminal = FALSE
  /\ max_steps = DEFAULT_MAX_STEPS
  /\ acts = NoActs
  /\ rewards = NoRewards
  /\ dones = [k \in DoneKeys |-> FALSE]

\* the movement phase of step_agents: _move_wrapper for both agents, then the
\* collision loop
MoveCall ==
  /\ time < CollideCalls
  /\ \E actions \in ActionPairs :
       /\ agents' = move_agents(agents, grid, actions)
       /\ acts' = actions
  /\ time' = time + 1
  /\ UNCHANGED <<grid, terminal, max_steps, rewards, dones>>

NextCollide == MoveCall

SpecCollide == InitCollide /\ [][NextCollide]_vars

(***************************************************************************)
(* process_interact on its own: agent_0 stands at (1,2) facing the cell    *)
(* (1,3), which is of any static type and holds anything the data model    *)
(* allows, and a call applies process_interact to agent_0.                 *)
(***************************************************************************)
FacedPos == Pos(1, 3)

\* one to three raw ingredients of the two kinds
RawContents == {a * Onion + b * Tomato : a \in 0 .. 3, b \in 0 .. 3} \ {0}
RawPotContents == {c \in RawContents : ingredient_count(c) <= 3}

\* the cells an agent can face: [static, dynamic, extra]
FacedCells ==
  {Cell(POT, c, 0) : c \in RawPotContents \cup {0}}
    \cup {Cell(POT, c, e) : c \in RawPotContents, e \in 1 .. POT_COOK_TIME}
    \cup {Cell(POT, c + COOKED, 0) : c \in RawPotContents}
    \cup {Cell(WALL, c, 0) : c \in {0, PLATE, Onion, Tomato}
                                 \cup {Dish(d) : d \in RawPotContents}}
    \cup {Cell(t, 0, 0) :
            t \in {EMPTY, GOAL, PLATE_PILE, INGREDIENT_PILE_BASE, INGREDIENT_PILE_BASE + 1}}

Inventories == {0, PLATE, Onion, Tomato} \cup {Dish(d) : d \in RawPotContents}

InitInteract ==
  /\ \E inventory \in Inventories :
       agents = (0 :> MidAgent(1, 2, DOWN, inventory)) @@ (1 :> MidAgent(2, 2, UP, 0))
  /\ \E cell \in FacedCells :
       grid = [reset_grid EXCEPT ![FacedPos.y][FacedPos.x] = cell]
  /\ time = 0
  /\ terminal = FALSE
  /\ max_steps = DEFAULT_MAX_STEPS
  /\ acts = NoActs
  /\ rewards = NoRewards
  /\ dones = [k \in DoneKeys |-> FALSE]

\* new_grid, new_agent, reward = self.process_interact(grid, agent)
interact_return(r) ==
  /\ grid' = r.grid
  /\ agents' = [agents EXCEPT ![0] = r.agent]
  /\ time' = time + 1
  /\ UNCHANGED <<terminal, max_steps, acts, rewards, dones>>

InteractCall ==
  /\ time < InteractCalls
  /\ interact_return(process_interact(grid, agents[0]))

NextInteract == InteractCall

SpecInteract == InitInteract /\ [][NextInteract]_vars

(***************************************************************************)
(* Overcooked.get_obs: one observation per agent, the grid with the agents *)
(* written over their cells.                                               *)
(***************************************************************************)
_include_agents(g, agent) ==
  [g EXCEPT ![agent.pos.y][agent.pos.x] = Cell(AGENT, agent.inventory, agent.dir)]

include_scan(g, st_agents) ==
  _include_agents(_include_agents(g, st_agents[0]), st_agents[1])

\* _agent_obs leaving the observer tagged like the other agent
_agent_obs_untagged(obs, agent) == obs

_agent_obs(obs, agent) ==
  [obs EXCEPT ![agent.pos.y][agent.pos.x][0] = SELF_AGENT]

all_obs(obs, st_agents) == [i \in AgentIds |-> _agent_obs(obs, st_agents[i])]

get_obs(st_agents, st_grid) == all_obs(include_scan(st_grid, st_agents), st_agents)

(***************************************************************************)
(* The claims.  A step is the pair (state, state') of a step_env call;     *)
(* acts' is the action pair of that call.                                  *)
(***************************************************************************)
Directional == {right, down, left, up}
Other(i) == 1 - i
Cells == {Pos(x, y) : x \in Xs, y \in Ys}
StaticAt(g, p) == g[p.y][p.x][0]
DynamicAt(g, p) == g[p.y][p.x][1]
ExtraAt(g, p) == g[p.y][p.x][2]

\* the cell one step from pos in direction dir, if the grid has one
Ahead(pos, dir) == Pos(pos.x + DirX(dir), pos.y + DirY(dir))
InGrid(p) == p.x \in Xs /\ p.y \in Ys

\* the candidate cell of agent i's move in this step
Candidate(i) == move_in_bounds(agents[i].pos, ACTION_TO_DIRECTION(acts'[i]), Width, Height)

\* C1: in every reachable state the two agents occupy distinct cells.
C1_DistinctCells == agents[0].pos # agents[1].pos

\* a state right after a step in which both agents tried to enter one EMPTY cell
C1_Witness ==
  /\ time > 0
  /\ acts[0] \in Directional /\ acts[1] \in Directional
  /\ move_in_bounds(agents[0].pos, ACTION_TO_DIRECTION(acts[0]), Width, Height)
       = move_in_bounds(agents[1].pos, ACTION_TO_DIRECTION(acts[1]), Width, Height)
  /\ agents[0].pos # agents[1].pos

\* C2: when both agents take directional actions whose candidate cell is the
\* same EMPTY cell, both end the step where they stood before it, each facing
\* the direction it attempted.
C2_SameTargetRevert ==
  [][(/\ acts'[0] \in Directional /\ acts'[1] \in Directional
      /\ Candidate(0) = Candidate(1)
      /\ StaticAt(grid, Candidate(0)) = EMPTY)
     => \A i \in AgentIds :
          /\ agents'[i].pos = agents[i].pos
          /\ agents'[i].dir = ACTION_TO_DIRECTION(acts'[i])]_vars

\* agent_0 went down and agent_1 went left for the cell (1,2) between them
C2_Witness ==
  /\ acts[0] = down /\ acts[1] = left
  /\ agents[0] = [pos |-> Pos(1, 1), dir |-> DOWN, inventory |-> 0]
  /\ agents[1].pos = Pos(2, 2) /\ agents[1].dir = LEFT

\* C3 as stated: a directional action towards a non-EMPTY cell, or towards the
\* cell the other agent occupied at the start of the step, leaves the position
\* unchanged and sets the facing direction to the attempted one.
C3_BlockedOrStale ==
  [][\A i \in AgentIds :
       LET dir == ACTION_TO_DIRECTION(acts'[i])
           target == Ahead(agents[i].pos, dir)
       IN (/\ acts'[i] \in Directional
           /\ InGrid(target)
           /\ (StaticAt(grid, target) # EMPTY \/ target = agents[Other(i)].pos))
          => /\ agents'[i].pos = agents[i].pos
             /\ agents'[i].dir = dir]_vars

\* C3 amended: the other agent's cell blocks the move only if the other agent
\* is still on that cell at the end of the step.
C3_BlockedOrOccupied ==
  [][\A i \in AgentIds :
       LET dir == ACTION_TO_DIRECTION(acts'[i])
           target == Ahead(agents[i].pos, dir)
       IN (/\ acts'[i] \in Directional
           /\ InGrid(target)
           /\ \/ StaticAt(grid, target) # EMPTY
              \/ /\ target = agents[Other(i)].pos
                 /\ agents'[Other(i)].pos = agents[Other(i)].pos)
          => /\ agents'[i].pos = agents[i].pos
             /\ agents'[i].dir = dir]_vars

\* a state right after an agent walked against the other agent, who stayed
C3_Witness ==
  /\ time > 0
  /\ \E i \in AgentIds :
       /\ acts[i] \in Directional
       /\ acts[Other(i)] = stay
       /\ agents[i].dir = ACTION_TO_DIRECTION(acts[i])
       /\ Ahead(agents[i].pos, agents[i].dir) = agents[Other(i)].pos

(***************************************************************************)
(* Interactions within a step.  An interacting agent neither moves nor     *)
(* turns, so it faces in state' what it faced in the state; agent_1's      *)
(* interaction reads the grid agent_0's interaction left.                  *)
(***************************************************************************)
InteractsAt(i, p) == acts'[i] = interact /\ get_fwd_pos(agents[i]) = p

GridSeenBy(i) ==
  IF i = 1 /\ acts'[0] = interact THEN process_interact(grid, agents[0]).grid ELSE grid

RawIngredient(inventory) ==
  inventory # 0 /\ ~HasPlate(inventory) /\ ~HasCooked(inventory)

IdlePot(g, p) ==
  StaticAt(g, p) = POT /\ ExtraAt(g, p) = 0 /\ ~HasCooked(DynamicAt(g, p))

\* agent i, empty-handed, interacts with the idle pot p holding an ingredient
StartsCooking(i, p) ==
  /\ InteractsAt(i, p)
  /\ agents[i].inventory = 0
  /\ IdlePot(GridSeenBy(i), p)
  /\ ingredient_count(DynamicAt(GridSeenBy(i), p)) >= 1

\* a cooking pot counts down by one per step whatever the agents do, keeps its
\* ingredients, and gets the cooked flag in the step that brings it to 0
Countdown(p) ==
  (StaticAt(grid, p) = POT /\ ExtraAt(grid, p) > 0)
    => /\ ExtraAt(grid', p) = ExtraAt(grid, p) - 1
       /\ ~HasCooked(DynamicAt(grid, p))
       /\ DynamicAt(grid', p) \div 4 = DynamicAt(grid, p) \div 4
       /\ HasCooked(DynamicAt(grid', p)) <=> (ExtraAt(grid', p) = 0)

\* C4 as stated: the step in which an empty-handed agent starts an idle pot
\* returns the pot with counter 20, and the cooked flag is set, with the
\* counter at 0, when the countdown ends 20 steps later.
C4_StartsAtTwenty ==
  [][\A p \in Cells :
       /\ (\E i \in AgentIds : StartsCooking(i, p))
            => ExtraAt(grid', p) = 20 /\ ~HasCooked(DynamicAt(grid', p))
       /\ Countdown(p)]_vars

\* C4 amended: the step that starts the pot already counts it down once, so it
\* returns the pot with counter 19, and the cooked flag is first set, with the
\* counter at 0, 19 steps later.
C4_StartsAtNineteen ==
  [][\A p \in Cells :
       /\ (\E i \in AgentIds : StartsCooking(i, p))
            => ExtraAt(grid', p) = 19 /\ ~HasCooked(DynamicAt(grid', p))
       /\ Countdown(p)]_vars

\* a state right after an empty-handed agent started the pot
C4_Witness ==
  /\ time > MidTime
  /\ ExtraAt(grid, PotPos) = 19
  /\ \E i \in AgentIds :
       acts[i] = interact /\ agents[i].inventory = 0 /\ get_fwd_pos(agents[i]) = PotPos

\* agent i, holding exactly a plate, interacts with the cooked pot p
PlatesUp(i, p) ==
  /\ InteractsAt(i, p)
  /\ agents[i].inventory = PLATE
  /\ StaticAt(GridSeenBy(i), p) = POT
  /\ HasCooked(DynamicAt(GridSeenBy(i), p))

\* agent_1 drops a raw ingredient into the pot p that agent_0 emptied in the
\* same step
RefilledAfter(i, p) ==
  i = 0 /\ InteractsAt(1, p) /\ RawIngredient(agents[1].inventory)

\* C5 as stated: after the step the pot is empty with counter 0 and the agent
\* holds the dish.
C5_PotEmptyAfterStep ==
  [][\A i \in AgentIds, p \in Cells :
       PlatesUp(i, p)
         => /\ DynamicAt(grid', p) = 0
            /\ ExtraAt(grid', p) = 0
            /\ agents'[i].inventory = PLATE + DynamicAt(GridSeenBy(i), p)]_vars

\* C5 amended: the pickup empties the pot, and after the step the pot holds
\* nothing but a raw ingredient agent_1 dropped into it later in that step.
C5_PotEmptiedByPickup ==
  [][\A i \in AgentIds, p \in Cells :
       PlatesUp(i, p)
         => /\ DynamicAt(process_interact(GridSeenBy(i), agents[i]).grid, p) = 0
            /\ DynamicAt(grid', p)
                 = IF RefilledAfter(i, p) THEN agents[1].inventory ELSE 0
            /\ ExtraAt(grid', p) = 0
            /\ agents'[i].inventory = PLATE + DynamicAt(GridSeenBy(i), p)
            /\ HasCooked(agents'[i].inventory)]_vars

\* a state right after an agent plated the three cooked onions of the pot
C5_Witness ==
  /\ time > MidTime
  /\ DynamicAt(grid, PotPos) = 0 /\ ExtraAt(grid, PotPos) = 0
  /\ \E i \in AgentIds :
       /\ acts[i] = interact
       /\ get_fwd_pos(agents[i]) = PotPos
       /\ agents[i].inventory = Dish(3 * Onion)

\* agent i interacts facing the goal, holding a dish
Delivers(i) ==
  /\ acts'[i] = interact
  /\ StaticAt(grid, get_fwd_pos(agents[i])) = GOAL
  /\ HasCooked(agents[i].inventory)

\* agent i interacts facing the goal, holding no dish
FailsToDeliver(i) ==
  /\ acts'[i] = interact
  /\ StaticAt(grid, get_fwd_pos(agents[i])) = GOAL
  /\ ~HasCooked(agents[i].inventory)

\* C6: a delivery adds exactly 20 to the step's reward and empties the
\* inventory; an interact at the goal without a dish adds nothing and changes
\* neither the inventory nor the grid.
C6_Delivery ==
  [][\A i \in AgentIds :
       /\ Delivers(i)
            => /\ agents'[i].inventory = 0
               /\ process_interact(GridSeenBy(i), agents[i]).reward = 20
               /\ rewards'[i] = 20 + (IF Delivers(Other(i)) THEN 20 ELSE 0)
       /\ FailsToDeliver(i)
            => /\ agents'[i].inventory = agents[i].inventory
               /\ process_interact(GridSeenBy(i), agents[i]).reward = 0
               /\ process_interact(GridSeenBy(i), agents[i]).grid = GridSeenBy(i)
               /\ rewards'[i] = (IF Delivers(Other(i)) THEN 20 ELSE 0)]_vars

\* a state right after exactly one agent delivered
C6_Witness ==
  /\ time > MidTime
  /\ rewards[0] = 20
  /\ \E i \in AgentIds :
       /\ acts[i] = interact
       /\ agents[i].inventory = 0
       /\ StaticAt(grid, get_fwd_pos(agents[i])) = GOAL
       /\ acts[Other(i)] = interact
       /\ agents[Other(i)].inventory = Onion
       /\ StaticAt(grid, get_fwd_pos(agents[Other(i)])) = GOAL

\* agent i, holding a raw ingredient, interacts with the idle pot p that holds
\* three ingredients
DropsOnFullPot(i, p) ==
  /\ InteractsAt(i, p)
  /\ RawIngredient(agents[i].inventory)
  /\ IdlePot(GridSeenBy(i), p)
  /\ ingredient_count(DynamicAt(GridSeenBy(i), p)) = 3

\* C7: dropping a raw ingredient on an idle pot that holds three ingredients
\* is a no-op: the interaction changes neither the pot nor the inventory.
C7_FullPotNoOp ==
  [][\A i \in AgentIds, p \in Cells :
       DropsOnFullPot(i, p)
         => /\ process_interact(GridSeenBy(i), agents[i])
                 = [grid |-> GridSeenBy(i), agent |-> agents[i], reward |-> 0]
            /\ agents'[i].inventory = agents[i].inventory
            /\ DynamicAt(grid', p) = DynamicAt(GridSeenBy(i), p)
            /\ (ExtraAt(grid', p) = 0 \/ StartsCooking(Other(i), p))]_vars

\* a state right after agent_0 dropped the third onion and agent_1 tried to
\* drop a fourth
C7_Witness ==
  /\ time > MidTime
  /\ acts[0] = interact /\ acts[1] = interact
  /\ get_fwd_pos(agents[0]) = PotPos /\ get_fwd_pos(agents[1]) = PotPos
  /\ agents[0].inventory = 0 /\ agents[1].inventory = Onion
  /\ DynamicAt(grid, PotPos) = 3 * Onion /\ ExtraAt(grid, PotPos) = 0

\* agent i, empty-handed, interacts facing a pile
PicksFromPile(i) ==
  /\ acts'[i] = interact
  /\ agents[i].inventory = 0
  /\ \/ StaticAt(grid, get_fwd_pos(agents[i])) = PLATE_PILE
     \/ StaticAt(grid, get_fwd_pos(agents[i])) >= INGREDIENT_PILE_BASE

\* C8: in every reachable state an empty-handed interact facing a pile gives
\* the agent that pile's item and leaves the pile cell as it was.
C8_PileNeverDepleted ==
  [][\A i \in AgentIds :
       LET p == get_fwd_pos(agents[i])
           item == StaticAt(grid, p)
       IN PicksFromPile(i)
            => /\ item = PLATE_PILE => agents'[i].inventory = PLATE
               /\ item >= INGREDIENT_PILE_BASE
                    => /\ agents'[i].inventory
                            = BASE_INGREDIENT * Pow4(item - INGREDIENT_PILE_BASE)
                       /\ ingredient_count(agents'[i].inventory) = 1
               /\ grid'[p.y][p.x] = grid[p.y][p.x]
               /\ DynamicAt(grid', p) = 0]_vars

\* a state right after agent_0 took a tomato and agent_1 a plate
C8_Witness ==
  /\ time > MidTime
  /\ acts[0] = interact /\ acts[1] = interact
  /\ get_fwd_pos(agents[0]) = TomatoPilePos /\ agents[0].inventory = Tomato
  /\ get_fwd_pos(agents[1]) = PlatePilePos /\ agents[1].inventory = PLATE

\* C9: every step adds exactly 1 to time; terminal and the done flags are
\* false while time < max_steps, become true in the step that brings time to
\* max_steps, and stay true.
C9_TimeAndTerminal ==
  /\ [](/\ time < max_steps => ~terminal
        /\ \A k \in DoneKeys : dones[k] = terminal)
  /\ [][/\ time' = time + 1
        /\ terminal' <=> (time' >= max_steps)
        /\ (time' = max_steps) => (terminal' /\ ~terminal)
        /\ terminal => terminal']_vars

\* a state after a step taken with the terminal flag already set
C9_Witness == terminal /\ time > max_steps /\ dones["__all__"]

\* C10: both agents get the same reward, 20 times the number of agents that
\* delivered in the step.
C10_SharedReward ==
  [][/\ rewards'[0] = rewards'[1]
     /\ rewards'[0] = 20 * Cardinality({i \in AgentIds : Delivers(i)})
     /\ rewards'[0] \in {0, 20, 40}]_vars

\* a state right after both agents delivered
C10_Witness ==
  /\ time > MidTime
  /\ rewards[0] = 40 /\ rewards[1] = 40
  /\ \A i \in AgentIds : acts[i] = interact /\ agents[i].inventory = 0

\* C11: in each agent's observation of a reachable state, channel 0 of every
\* cell no agent stands on is the cell's static type in the grid, the
\* observer's own cell is tagged SELF_AGENT, the other agent's cell AGENT, and
\* channels 1 and 2 of an agent's cell are that agent's inventory and direction.
C11_Observation ==
  \A i \in AgentIds :
    /\ \A p \in Cells :
         (\A j \in AgentIds : agents[j].pos # p)
           => get_obs(agents, grid)[i][p.y][p.x][0] = StaticAt(grid, p)
    /\ get_obs(agents, grid)[i][agents[i].pos.y][agents[i].pos.x][0] = SELF_AGENT
    /\ get_obs(agents, grid)[i][agents[Other(i)].pos.y][agents[Other(i)].pos.x][0] = AGENT
    /\ \A j \in AgentIds :
         /\ get_obs(agents, grid)[i][agents[j].pos.y][agents[j].pos.x][1]
              = agents[j].inventory
         /\ get_obs(agents, grid)[i][agents[j].pos.y][agents[j].pos.x][2] = agents[j].dir

\* a state in which agent_0 holds a tomato and the agents face different ways
C11_Witness ==
  /\ agents[0].inventory = Tomato
  /\ agents[0].dir # agents[1].dir
  /\ get_obs(agents, grid)[1][agents[0].pos.y][agents[0].pos.x]
       = Cell(AGENT, Tomato, agents[0].dir)

\* agent i ends the step holding, on top of what it held, the item that lay on
\* the cell p when the step began
Obtains(i, p) ==
  /\ DynamicAt(grid, p) # 0
  /\ agents'[i].inventory = agents[i].inventory + DynamicAt(grid, p)

\* C12: the interactions of a step are applied agent_0 first, agent_1 second,
\* on one grid.  When both agents interact with the same cell, agent_1's
\* interaction reads the grid agent_0's left, at most one of them obtains the
\* item on the cell, of two plates at a cooked pot only agent_0's gets the
\* dish, of two items dropped on an empty counter only agent_0's lands, and an
\* item agent_0 drops on an empty counter goes to an empty-handed agent_1.
C12_AgentOrder ==
  [][\A p \in Cells :
       (InteractsAt(0, p) /\ InteractsAt(1, p))
         => /\ agents'[0] = process_interact(grid, agents[0]).agent
            /\ agents'[1]
                 = process_interact(process_interact(grid, agents[0]).grid, agents[1]).agent
            /\ grid' = cook_pots(process_interact(process_interact(grid, agents[0]).grid,
                                                  agents[1]).grid)
            /\ ~(Obtains(0, p) /\ Obtains(1, p))
            /\ (/\ StaticAt(grid, p) = POT /\ HasCooked(DynamicAt(grid, p))
                /\ agents[0].inventory = PLATE /\ agents[1].inventory = PLATE)
                 => /\ agents'[0].inventory = PLATE + DynamicAt(grid, p)
                    /\ agents'[1].inventory = PLATE
                    /\ DynamicAt(grid', p) = 0
            /\ (/\ StaticAt(grid, p) = WALL /\ DynamicAt(grid, p) = 0
                /\ agents[0].inventory # 0 /\ agents[1].inventory # 0)
                 => /\ DynamicAt(grid', p) = agents[0].inventory
                    /\ agents'[0].inventory = 0
                    /\ agents'[1].inventory = agents[1].inventory
            /\ (/\ StaticAt(grid, p) = WALL /\ DynamicAt(grid, p) = 0
                /\ agents[0].inventory # 0 /\ agents[1].inventory = 0)
                 => /\ agents'[1].inventory = agents[0].inventory
                    /\ agents'[0].inventory = 0
                    /\ DynamicAt(grid', p) = 0]_vars

\* a state right after agent_0 put a dish on the empty counter and the
\* empty-handed agent_1 took it in the same step
C12_Witness ==
  /\ time > MidTime
  /\ acts[0] = interact /\ acts[1] = interact
  /\ get_fwd_pos(agents[0]) = CounterPos /\ get_fwd_pos(agents[1]) = CounterPos
  /\ agents[0].inventory = 0 /\ agents[1].inventory = Dish(Onion)
  /\ DynamicAt(grid, CounterPos) = 0

\* the agents stand on adjacent cells and each takes the directional action
\* towards the other's cell
MovesTowardsEachOther ==
  /\ acts'[0] \in Directional /\ acts'[1] \in Directional
  /\ StaticAt(grid, agents[0].pos) = EMPTY /\ StaticAt(grid, agents[1].pos) = EMPTY
  /\ Ahead(agents[0].pos, ACTION_TO_DIRECTION(acts'[0])) = agents[1].pos
  /\ Ahead(agents[1].pos, ACTION_TO_DIRECTION(acts'[1])) = agents[0].pos

\* C13: swaps are not prevented: two agents on adjacent EMPTY cells that each
\* move towards the other's cell both move, and end the step with their
\* positions exchanged.
C13_SwapNotPrevented ==
  [][MovesTowardsEachOther
       => /\ agents'[0].pos = agents[1].pos
          /\ agents'[1].pos = agents[0].pos
          /\ \A i \in AgentIds : agents'[i].dir = ACTION_TO_DIRECTION(acts'[i])]_vars

\* the state after agent_0 stepped down to (1,2) and the agents then traded the
\* cells (1,2) and (2,2)
C13_Witness ==
  /\ time = 2
  /\ acts[0] = right /\ acts[1] = left
  /\ agents[0].pos = Pos(2, 2) /\ agents[1].pos = Pos(1, 2)

\* the agents of the state with their candidate positions c0 and c1
WithCandidates(c0, c1) ==
  (0 :> [agents[0] EXCEPT !.pos = c0]) @@ (1 :> [agents[1] EXCEPT !.pos = c1])

\* mask b has every flag of mask a and at least one more
GrowsFrom(a, b) ==
  /\ \A i \in AgentIds : a[i] => b[i]
  /\ \E i \in AgentIds : b[i] /\ ~a[i]

\* the loop on old_agents and new_agents: every pass that finds a collision
\* sets a new flag, the body runs at most once per agent, and the positions
\* on exit are distinct
LoopBounded(old_agents, new_agents) ==
  /\ \A mask \in [AgentIds -> BOOLEAN] :
       while_cond(old_agents, new_agents, mask)
         => GrowsFrom(mask, while_body(old_agents, new_agents, mask))
  /\ loop_iterations(old_agents, new_agents, initial_mask, MaxIter) <= Cardinality(AgentIds)
  /\ ~while_cond(old_agents, new_agents,
                 collision_loop(old_agents, new_agents, initial_mask))
  /\ resolve_collisions(old_agents, new_agents)[0].pos
       # resolve_collisions(old_agents, new_agents)[1].pos

\* C14: for distinct old positions and any candidate positions the collision
\* loop terminates: a pass that finds a collision sets at least one new undo
\* flag, the body runs at most as many times as there are agents, and on exit
\* no two agents' effective positions coincide.
\* The placements (the states at time 0) are all pairs of distinct old
\* positions; the states after a call repeat them, and show the exit positions.
C14_LoopTerminates ==
  /\ agents[0].pos # agents[1].pos
  /\ time = 0 => \A c0 \in Cells, c1 \in Cells : LoopBounded(agents, WithCandidates(c0, c1))

\* a state right after agent_0 at (0,1) and agent_1 at (1,2) both went for
\* (1,1) and the loop, in one pass, sent both back
C14_Witness ==
  /\ time > 0
  /\ acts[0] = right /\ agents[0].pos = Pos(0, 1)
  /\ acts[1] = up /\ agents[1].pos = Pos(1, 2)
  /\ loop_iterations(agents, WithCandidates(Pos(1, 1), Pos(1, 1)), initial_mask, MaxIter) = 1
  /\ collision_loop(agents, WithCandidates(Pos(1, 1), Pos(1, 1)), initial_mask)
       = [i \in AgentIds |-> TRUE]

(***************************************************************************)
(* The data model: what an inventory and a cell may hold.                  *)
(***************************************************************************)
\* cooked ingredients, on a plate (a dish in hand or on a counter) or in the pot
CookedIngredients(obj) == HasCooked(obj) /\ ingredient_count(obj) \in 1 .. 3

\* empty, a plate alone, raw ingredients alone, or cooked ingredients
ValidObject(obj) ==
  \/ obj = 0
  \/ obj = PLATE
  \/ RawIngredient(obj) /\ ingredient_count(obj) \in 1 .. 3
  \/ CookedIngredients(obj)

\* empty, a plate, one raw ingredient, or a dish
ValidInventory(inventory) ==
  \/ inventory = 0
  \/ inventory = PLATE
  \/ RawIngredient(inventory) /\ ingredient_count(inventory) = 1
  \/ HasPlate(inventory) /\ CookedIngredients(inventory)

\* raw ingredients, at most three, or cooked ingredients; never a plate
ValidPotContents(obj) ==
  /\ ~HasPlate(obj)
  /\ ingredient_count(obj) <= 3
  /\ HasCooked(obj) => ingredient_count(obj) >= 1
  /\ obj >= 0

\* C15: in every reachable state every inventory and every cell's dynamic
\* value is empty, a plate alone, raw ingredients alone or a dish; no pot holds
\* more than three ingredients, no inventory more than one raw ingredient, and
\* the cooked flag never stands on an empty ingredient set.
C15_DataModel ==
  /\ \A i \in AgentIds :
       ValidObject(agents[i].inventory) /\ ValidInventory(agents[i].inventory)
  /\ \A p \in Cells :
       /\ ValidObject(DynamicAt(grid, p))
       /\ HasCooked(DynamicAt(grid, p)) => ingredient_count(DynamicAt(grid, p)) >= 1
       /\ StaticAt(grid, p) = POT => ValidPotContents(DynamicAt(grid, p))
       /\ StaticAt(grid, p) = WALL => ValidInventory(DynamicAt(grid, p))
       /\ StaticAt(grid, p) \notin {POT, WALL} => DynamicAt(grid, p) = 0

\* a state right after agent_1 dropped the third ingredient into the pot while
\* agent_0 stood by with a plate
C15_Witness ==
  /\ time > MidTime
  /\ acts[0] = interact /\ acts[1] = interact
  /\ get_fwd_pos(agents[0]) = PotPos /\ get_fwd_pos(agents[1]) = PotPos
  /\ agents[0].inventory = PLATE /\ agents[1].inventory = 0
  /\ DynamicAt(grid, PotPos) = 3 * Onion /\ ExtraAt(grid, PotPos) = 0

\* the three states of a pot cell
PotIdle(g, p) == ExtraAt(g, p) = 0 /\ ~HasCooked(DynamicAt(g, p))
PotCooking(g, p) == ExtraAt(g, p) > 0
PotCooked(g, p) == HasCooked(DynamicAt(g, p))

\* C16: in every reachable state a cell's counter is nonzero only on a POT and
\* lies in 0..20, and a pot is in exactly one of the states idle, cooking
\* (counter > 0) and cooked (cooked flag set): never cooking and cooked at once.
C16_PotStates ==
  \A p \in Cells :
    /\ ExtraAt(grid, p) \in 0 .. POT_COOK_TIME
    /\ ExtraAt(grid, p) # 0 => StaticAt(grid, p) = POT
    /\ StaticAt(grid, p) = POT
         => /\ Cardinality({k \in {"idle", "cooking", "cooked"} :
                              \/ k = "idle" /\ PotIdle(grid, p)
                              \/ k = "cooking" /\ PotCooking(grid, p)
                              \/ k = "cooked" /\ PotCooked(grid, p)}) = 1
            /\ ~(PotCooking(grid, p) /\ PotCooked(grid, p))

\* a state right after an empty-handed agent interacted with the pot that
\* holds three cooked onions, or that finished cooking them in that step
C16_Witness ==
  /\ time > MidTime
  /\ PotCooked(grid, PotPos) /\ ExtraAt(grid, PotPos) = 0
  /\ DynamicAt(grid, PotPos) = 3 * Onion + COOKED
  /\ acts[0] = interact /\ get_fwd_pos(agents[0]) = PotPos /\ agents[0].inventory = 0
  /\ acts[1] = stay

\* the guards of process_interact that are true for a faced cell and an inventory
TrueGuards(item, ingredients, extra, inventory) ==
  {k \in {"pickup", "drop", "delivery"} :
     \/ k = "pickup" /\ successful_pickup(item, ingredients, inventory)
     \/ k = "drop" /\ successful_drop(item, ingredients, extra, inventory)
     \/ k = "delivery" /\ successful_delivery(item, inventory)}

\* the call drops into the pot at p: one ingredient more in the pot, and the
\* inventory, which held something, is empty
DropsIntoPot(p) ==
  /\ StaticAt(grid, p) = POT
  /\ ingredient_count(DynamicAt(grid', p)) = ingredient_count(DynamicAt(grid, p)) + 1
  /\ agents[0].inventory # 0
  /\ agents'[0].inventory = 0

\* C17: for every faced cell and inventory that satisfy the data model, at most
\* one of the pickup, drop and delivery guards of process_interact is true, and
\* a drop into a pot (one ingredient more in the pot, the inventory emptied)
\* happens iff the pot is idle, the inventory holds a raw ingredient and the pot
\* holds fewer than 3 ingredients.
C17_GuardsExclusive ==
  [][(/\ ValidInventory(agents[0].inventory)
      /\ ValidObject(DynamicAt(grid, FacedPos))
      /\ get_fwd_pos(agents[0]) = FacedPos)
     => /\ Cardinality(TrueGuards(StaticAt(grid, FacedPos), DynamicAt(grid, FacedPos),
                                  ExtraAt(grid, FacedPos), agents[0].inventory)) <= 1
        /\ DropsIntoPot(FacedPos)
             <=> /\ IdlePot(grid, FacedPos)
                 /\ RawIngredient(agents[0].inventory)
                 /\ ingredient_count(DynamicAt(grid, FacedPos)) < 3
        /\ DropsIntoPot(FacedPos)
             => /\ DynamicAt(grid', FacedPos)
                     = DynamicAt(grid, FacedPos) + agents[0].inventory
                /\ ExtraAt(grid', FacedPos) = 0]_vars

\* a state right after the third ingredient went into the idle pot
C17_Witness ==
  /\ time > 0
  /\ grid[FacedPos.y][FacedPos.x] = Cell(POT, 2 * Onion + Tomato, 0)
  /\ agents[0].inventory = 0

\* what the pot p holds now is what it held, cooked if the counter is now 0
SameIngredients(p) ==
  DynamicAt(grid', p)
    = IF ExtraAt(grid', p) = 0 THEN DynamicAt(grid, p) + COOKED ELSE DynamicAt(grid, p)

\* C18: while a pot is cooking (counter > 0) no interaction, by any agent with
\* any inventory, changes its ingredients or resets or stops its counter: in
\* every step the counter goes down by exactly 1, the ingredients stay, and the
\* cooked flag is set in exactly the step in which the counter reaches 0.
C18_CookingUndisturbed ==
  [][\A p \in Cells :
       (StaticAt(grid, p) = POT /\ ExtraAt(grid, p) > 0)
         => /\ ExtraAt(grid', p) = ExtraAt(grid, p) - 1
            /\ SameIngredients(p)
            /\ HasCooked(DynamicAt(grid', p)) <=> (ExtraAt(grid, p) = 1)
            /\ \A i \in AgentIds :
                 InteractsAt(i, p)
                   => /\ agents'[i].inventory = agents[i].inventory
                      /\ process_interact(GridSeenBy(i), agents[i]).grid = GridSeenBy(i)]_vars

\* a state right after an agent with an onion and an agent with a plate both
\* interacted with the pot that had two steps left to cook
C18_Witness ==
  /\ time > MidTime
  /\ acts[0] = interact /\ acts[1] = interact
  /\ get_fwd_pos(agents[0]) = PotPos /\ get_fwd_pos(agents[1]) = PotPos
  /\ agents[0].inventory = Onion /\ agents[1].inventory = PLATE
  /\ DynamicAt(grid, PotPos) = 3 * Onion /\ ExtraAt(grid, PotPos) = 1

\* C19: the frame of a step.  No cell changes its static type; an agent whose
\* action is not interact keeps its inventory; an agent whose action is stay
\* or interact keeps its position and direction; the dynamic contents of a cell
\* change only if an interacting agent faces the cell or the cell is a pot
\* whose counter reaches 0 in the step.
C19_Frame ==
  [][/\ \A p \in Cells : StaticAt(grid', p) = StaticAt(grid, p)
     /\ \A i \in AgentIds :
          /\ acts'[i] # interact => agents'[i].inventory = agents[i].inventory
          /\ acts'[i] \in {stay, interact}
               => agents'[i].pos = agents[i].pos /\ agents'[i].dir = agents[i].dir
     /\ \A p \in Cells :
          DynamicAt(grid', p) # DynamicAt(grid, p)
            => \/ \E i \in AgentIds : InteractsAt(i, p)
               \/ /\ StaticAt(grid, p) = POT
                  /\ ExtraAt(grid, p) > 0 /\ ExtraAt(grid', p) = 0]_vars

\* a state right after both agents walked away from the pot, agent_0 carrying
\* an onion, in the step in which the pot finished cooking
C19_Witness ==
  /\ time > MidTime
  /\ acts[0] = right /\ acts[1] = right
  /\ agents[0] = MidAgent(1, 1, RIGHT, Onion)
  /\ agents[1] = MidAgent(2, 2, RIGHT, 0)
  /\ DynamicAt(grid, PotPos) = 2 * Onion + Tomato + COOKED

\* C20: in every state reachable from a reset that puts both agents in bounds
\* on EMPTY cells, every agent stands in bounds on a cell of static type EMPTY,
\* whatever the actions were and whether or not a collision sent it back.
C20_OnEmptyCells ==
  \A i \in AgentIds :
    /\ InGrid(agents[i].pos)
    /\ StaticAt(grid, agents[i].pos) = EMPTY

\* a state after agent_0 walked against the edge of the grid or against the
\* pot while agent_1 walked against the edge of the grid
C20_Witness ==
  /\ time = 3
  /\ agents[0].pos = Pos(0, 1)
  /\ acts[0] \in {left, down}
  /\ agents[0].dir = ACTION_TO_DIRECTION(acts[0])
  /\ agents[1].pos = Pos(2, 3) /\ acts[1] = down

====
